---- MODULE Spec2Model ----
(***************************************************************************)
(* Parametric t-SNE (chunfuchen/Multiscale-Parametric-t-SNE).              *)
(*                                                                         *)
(* Two variants of the estimator are modelled side by side:                *)
(*   "msp"  : src/msp_tsne/parametric_tsne.py  (P precomputed once,        *)
(*            batch_size a constructor argument, within-batch shuffle)     *)
(*   "root" : src/parametric_tsne.py           (P recomputed every epoch   *)
(*            after a global shuffle, batch_size an argument of fit)       *)
(*                                                                         *)
(* Numbers.  Real values are kept exact as fractions:                      *)
(*   <<num, den>>       a conditional probability num/den; den = 0 is the  *)
(*                      IEEE result of 0/0, i.e. NaN;                      *)
(*   <<num, den, eps>>  an entry of a P block: num/den + eps * epsilon,    *)
(*                      epsilon the probability floor (1e-12 in msp, 1e-8  *)
(*                      in root) kept symbolic; den = 0 is NaN.            *)
(* exp(-D * beta) is computed in base-2 fixed point with WBits fractional  *)
(* bits; it underflows to 0 past WBits exactly as the float64 exp does     *)
(* past 2^-1074.  The entropy H itself (a logarithm) is not computed: the  *)
(* comparison of H - logU against 0 and tol is an input of each Hbeta      *)
(* evaluation, except that H is NaN whenever sumP is 0.                    *)
(***************************************************************************)
EXTENDS Integers, Sequences, FiniteSets, TLC

VARIABLES est, fit, io, job, blk

vars == <<est, fit, io, job, blk>>

----------------------------------------------------------------------------
(* Bounds of the model *)

\* largest number of samples handed to fit / largest block handed to x2p
MaxN == 3
\* largest n_iter an estimator is constructed with
MaxEpochs == 3
\* largest finite early_stopping_epochs an estimator is constructed with
MaxPatience == 2
\* number of fit / transform / fit_transform calls made on the estimator
MaxCalls == 2
\* largest max_iteration handed to x2p_job
MaxIteration == 3
\* fractional bits of the fixed-point exp
WBits == 2

\* feature values of the blocks handed to the P computation on its own
CoordsP == {0, 1, 3}

----------------------------------------------------------------------------
(* Arithmetic helpers *)

RECURSIVE Pow2(_)
Pow2(k) == IF k = 0 THEN 1 ELSE 2 * Pow2(k - 1)

RECURSIVE SumSeq(_)
SumSeq(s) == IF s = <<>> THEN 0 ELSE Head(s) + SumSeq(Tail(s))

RECURSIVE ProdSeq(_)
ProdSeq(s) == IF s = <<>> THEN 1 ELSE Head(s) * ProdSeq(Tail(s))

Abs(x) == IF x < 0 THEN -x ELSE x

Min(a, b) == IF a < b THEN a ELSE b

\* Python slice s[lo:hi] of a sequence (0-based, half-open, clamped)
Slice(s, lo, hi) == [k \in 1..(Min(hi, Len(s)) - Min(lo, Len(s))) |-> s[lo + k]]

\* numpy fancy index s[p]: row a of the result is row p[a] of s
Take(s, p) == [a \in 1..Len(p) |-> s[p[a]]]

\* the orders of n rows, for every n a fit can meet
Orders ==
    [n \in 0..MaxN |->
        {p \in [1..n -> 1..n] : \A a, b \in 1..n : p[a] = p[b] => a = b}]

\* the values np.random.permutation(n) can return (1-based)
permutation(n) == Orders[n]

\* beta is kept in units of 1 / BetaScale, so that MaxIteration halvings are exact
BetaScale == Pow2(MaxIteration + 1)

WUnit == Pow2(WBits)

NaN2 == <<0, 0>>

NaN3 == <<0, 0, 0>>

IsNaN(e) == e[2] = 0

\* the identity on arrays; it makes TLC evaluate an array once, when it is
\* built, instead of once for every entry read from it
Array(f) == IF f = f THEN f ELSE f

----------------------------------------------------------------------------
(* Hbeta, x2p, calculate_P *)

\* np.exp(-d * beta) in fixed point: WUnit * 2^-(d * beta), 0 on underflow
ExpNeg(d, beta) ==
    LET x == (d * beta) \div BetaScale
    IN  IF x > WBits THEN 0 ELSE WUnit \div Pow2(x)

\* Hbeta(D, beta): P = exp(-D * beta); sumP = sum(P); P = P / sumP.
\* H is NaN exactly when sumP = 0 (log(0) + 0/0); otherwise it is finite.
Hbeta(D, beta) ==
    LET P    == Array([j \in 1..Len(D) |-> ExpNeg(D[j], beta)])
        sumP == SumSeq(P)
    IN  [H_nan |-> sumP = 0,
         P     |-> [j \in 1..Len(D) |-> <<P[j], sumP>>]]

\* D = sum_X + (sum_X.reshape((-1, 1)) - 2 * np.dot(X, X.T)), one feature
Dist(X) ==
    LET sum_X == [i \in 1..Len(X) |-> X[i] * X[i]]
    IN  [i \in 1..Len(X) |-> [j \in 1..Len(X) |->
            sum_X[j] + (sum_X[i] - 2 * (X[i] * X[j]))]]

\* position of column j in row i once the diagonal is removed (idx mask)
OffDiag(i, j) == IF j < i THEN j ELSE j - 1

\* x2p(X, perplexity): row i of P, off the diagonal, is the row x2p_job
\* returns for D[i]; beta is the precision at which the search of row i ended.
x2p(X, beta) ==
    LET n == Len(X)
        D0 == Array(Dist(X))
        D == Array([i \in 1..n |-> [k \in 1..(n - 1) |->
                D0[i][IF k < i THEN k ELSE k + 1]]])
        thisP == Array([i \in 1..n |-> Hbeta(D[i], beta).P])
    IN  [i \in 1..n |-> [j \in 1..n |->
            IF i = j THEN <<0, 1>> ELSE thisP[i][OffDiag(i, j)]]]

\* P_batch[np.isnan(P_batch)] = 0
ZeroNaN(P) ==
    [i \in 1..Len(P) |-> [j \in 1..Len(P) |->
        IF IsNaN(P[i][j]) THEN <<0, 1>> ELSE P[i][j]]]

\* the conditional matrix with every row brought to the common denominator
\* L of the rows (numerators only)
Numerators(P) ==
    LET n   == Len(P)
        den == Array([i \in 1..n |-> IF n = 1 THEN 1 ELSE P[i][IF i = 1 THEN 2 ELSE 1][2]])
        L   == ProdSeq(den)
    IN  [i \in 1..n |-> [j \in 1..n |->
            IF i = j THEN 0 ELSE P[i][j][1] * (L \div den[i])]]

Symmetrize_twice(P) ==
    LET c == Array(Numerators(P))
    IN  [i \in 1..Len(P) |-> [j \in 1..Len(P) |-> c[i][j] + c[i][j]]]

\* P_batch = P_batch + P_batch.T
Symmetrize(P) ==
    LET c == Array(Numerators(P))
    IN  [i \in 1..Len(P) |-> [j \in 1..Len(P) |-> c[i][j] + c[j][i]]]

\* P_batch.sum()
SumAll(S) == SumSeq([i \in 1..Len(S) |-> SumSeq(S[i])])

\* P_batch = P_batch / P_batch.sum()   (0/0 = NaN when the sum is 0)
Normalize(S) ==
    LET T == SumAll(S)
    IN  [i \in 1..Len(S) |-> [j \in 1..Len(S) |->
            IF T = 0 THEN NaN2 ELSE <<S[i][j], T>>]]

\* P_batch = np.maximum(P_batch, epsilon): NaN stays NaN; a zero entry becomes
\* epsilon; every other entry is at least 1/den, above epsilon for den < 1e8.
Floor(N) ==
    [i \in 1..Len(N) |-> [j \in 1..Len(N) |->
        IF IsNaN(N[i][j]) THEN NaN3
        ELSE IF N[i][j][1] = 0 THEN <<0, N[i][j][2], 1>>
        ELSE <<N[i][j][1], N[i][j][2], 0>>]]

\* one block of calculate_P / _calculate_P
P_batch(Xb, beta) ==
    LET P0 == Array(x2p(Xb, beta))
        P1 == Array(ZeroNaN(P0))
        P2 == Array(Symmetrize(P1))
        P3 == Array(Normalize(P2))
    IN  Array(Floor(P3))

\* the block starts range(0, n, batch_size)
Starts(n, batch_size) == {i \in 0..(n - 1) : i % batch_size = 0}

\* numpy's check of P[i:i + batch_size] = P_batch: a block of rb rows and rb
\* columns is stored in rb rows of batch_size columns when rb = batch_size,
\* and is broadcast when it is a single entry; anything else is a ValueError
Fits(rb, batch_size) == rb = batch_size \/ rb = 1

\* calculate_P(X, batch_size, perplexity) / _calculate_P(X):
\*   err    : the slice assignment raised ValueError
\*   blocks : P_batch of every block start, by start
\*   P      : the n rows of batch_size columns (when no error)
calculate_P(X, batch_size, beta) ==
    LET n      == Len(X)
        blocks == Array([i \in Starts(n, batch_size) |->
                      P_batch(Slice(X, i, i + batch_size), beta)])
        start(r) == ((r - 1) \div batch_size) * batch_size
        err    == \E i \in Starts(n, batch_size) : ~Fits(Len(blocks[i]), batch_size)
    IN  [err    |-> err,
         blocks |-> blocks,
         P      |-> IF err THEN <<>>
                    ELSE [r \in 1..n |-> [j \in 1..batch_size |->
                            LET B == blocks[start(r)]
                            IN  IF Len(B) = batch_size THEN B[r - start(r)][j]
                                ELSE B[1][1]]]]

----------------------------------------------------------------------------
(* The P computation on its own *)

\* precisions at which the search of x2p_job is taken to have ended
BetaChoices == {BetaScale \div 2, BetaScale, 2 * BetaScale}

BlkIdle ==
    [X |-> <<>>, batch_size |-> 0, beta |-> 0, called |-> FALSE,
     res |-> calculate_P(<<>>, 1, 0)]

\* the calls of calculate_P: a block of samples, a batch size, a precision
BlkCalls ==
    {[X |-> X, batch_size |-> b, beta |-> beta, called |-> FALSE,
      res |-> calculate_P(<<>>, 1, 0)] :
        X \in UNION {[1..n -> CoordsP] : n \in 1..MaxN},
        b \in 1..MaxN, beta \in BetaChoices}

ComputeP ==
    /\ ~blk.called
    /\ blk.X # <<>>
    /\ blk' = [blk EXCEPT !.called = TRUE,
                          !.res = calculate_P(blk.X, blk.batch_size, blk.beta)]
    /\ UNCHANGED <<est, fit, io, job>>

----------------------------------------------------------------------------
(* x2p_job: the search of beta for one row of distances *)

\* np.inf; beta_min starts at -inf, beta_max at inf
inf == 1000000

\* distances of the rows handed to x2p_job
DistChoices == {0, 1, 4, 9}

\* outcome of comparing Hdiff = H - logU of a finite H:
\*   "gt" : Hdiff > tol     "lt" : Hdiff < -tol     "in" : |Hdiff| <= tol
Finite == {"gt", "lt", "in"}

\* np.isnan(thisP).any()
AnyNaN(thisP) == \E j \in 1..Len(thisP) : IsNaN(thisP[j])

JobIdle ==
    [pc |-> "idle", variant |-> "msp", Di |-> <<>>, max_iteration |-> 0,
     beta |-> 0, beta_min |-> 0, beta_max |-> 0, Hdiff |-> "in",
     thisP |-> <<>>, tries |-> 0, evals |-> 0, reverted |-> FALSE, late |-> FALSE]

\* the calls of x2p_job: a variant, a row of distances, a max_iteration
JobCalls ==
    {[JobIdle EXCEPT !.pc = "call", !.variant = v, !.Di = Di, !.max_iteration = mi] :
        v \in {"msp", "root"},
        Di \in UNION {[1..m -> DistChoices] : m \in 0..(MaxN - 1)},
        mi \in 0..MaxIteration}

\* while tries < max_iteration and np.abs(Hdiff) > tol   (false for a NaN Hdiff)
Searching_le(j) == j.tries <= j.max_iteration /\ j.Hdiff \in {"gt", "lt"}

Searching(j) == j.tries < j.max_iteration /\ j.Hdiff \in {"gt", "lt"}

\* the next beta and bracket of one search step
NextBeta(j) ==
    IF j.Hdiff = "gt"
    THEN [beta_min |-> j.beta, beta_max |-> j.beta_max,
          beta |-> IF j.beta_max = inf \/ (j.variant = "msp" /\ j.beta_max = -inf)
                   THEN j.beta * 2 ELSE (j.beta + j.beta_max) \div 2]
    ELSE [beta_min |-> j.beta_min, beta_max |-> j.beta,
          beta |-> IF j.beta_min = -inf \/ (j.variant = "msp" /\ j.beta_min = inf)
                   THEN j.beta \div 2 ELSE (j.beta + j.beta_min) \div 2]

\* the statements before the loop: beta = 1.0 and the first Hbeta
JobCall ==
    \E h \in Finite :
        /\ job.pc = "call"
        /\ LET r == Hbeta(job.Di, BetaScale)
           IN  job' = [job EXCEPT !.pc = "loop",
                       !.beta = BetaScale, !.beta_min = -inf, !.beta_max = inf,
                       !.Hdiff = IF r.H_nan THEN "nan" ELSE h,
                       !.thisP = r.P, !.tries = 0, !.evals = 1]
        /\ UNCHANGED <<est, fit, io, blk>>

\* one pass of the loop body
JobStep ==
    \E h \in Finite :
        /\ job.pc = "loop"
        /\ Searching(job)
        /\ LET nb == NextBeta(job)
               r  == Hbeta(job.Di, nb.beta)
           IN  IF job.variant = "root" /\ AnyNaN(r.P)
               THEN \* thisP = thisP_old.copy(); break
                    job' = [job EXCEPT !.pc = "done", !.beta = nb.beta,
                                       !.beta_min = nb.beta_min, !.beta_max = nb.beta_max,
                                       !.evals = @ + 1, !.reverted = TRUE,
                                       !.late = job.Hdiff = "in"]
               ELSE job' = [job EXCEPT !.beta = nb.beta,
                                       !.beta_min = nb.beta_min, !.beta_max = nb.beta_max,
                                       !.thisP = r.P,
                                       !.Hdiff = IF r.H_nan THEN "nan" ELSE h,
                                       !.tries = @ + 1, !.evals = @ + 1,
                                       !.late = job.Hdiff = "in"]
        /\ UNCHANGED <<est, fit, io, blk>>

\* return i, thisP
JobReturn ==
    /\ job.pc = "loop"
    /\ ~Searching(job)
    /\ job' = [job EXCEPT !.pc = "done"]
    /\ UNCHANGED <<est, fit, io, blk>>

----------------------------------------------------------------------------
(* ParametricTSNE: the estimator *)

\* Python's None for batch_size and _model
None == 0

\* self._model once _build_model has run
Sequential == 1

\* early_stopping_min_improvement, the unit in which losses are counted
early_stopping_min_improvement == 1

early_exaggeration_value == 4

\* the losses train_on_batch returns, fractions in units of
\* early_stopping_min_improvement: 0, 2 and NaN
LossChoices == {<<0, 1>>, <<2, 1>>, NaN2}

\* loss += l   (NaN absorbs)
AddLoss(loss, l) ==
    IF IsNaN(loss) \/ IsNaN(l) THEN NaN2 ELSE <<loss[1] + l[1], 1>>

\* loss /= n_batches
DivLoss(loss, n_batches) ==
    IF IsNaN(loss) THEN NaN2 ELSE <<loss[1], n_batches>>

\* the precision at which the search of every row ends during a fit
FitBeta == BetaScale

\* the data sets handed to fit, fit_transform and transform: n samples of one
\* feature, sample i at i - 1
DataSets == {[i \in 1..n |-> i - 1] : n \in 1..MaxN}

\* the arrays a fit can hold as X: a data set, cut at its end or reordered
FitArrays ==
    UNION {{Take(X, p) : p \in permutation(Len(X))} :
              X \in {Slice(Xa, 0, n) : n \in 1..MaxN, Xa \in DataSets}}

\* calculate_P of every array a fit can hold, worked out once per array and
\* batch size
Computed ==
    Array([X \in FitArrays |-> [b \in 1..MaxN |-> calculate_P(X, b, FitBeta)]])

\* calculate_P(X, self._batch_size, self.perplexity) / self._calculate_P(X)
\* as fit calls it
FitP(X, batch_size) == Computed[X][batch_size]

\* a batch_size as the caller may give it
BatchSizes == {None} \cup 1..MaxN

IterChoices == 0..MaxEpochs

PatienceChoices == {inf} \cup 1..MaxPatience

ExaggerationChoices == {0, 2}

\* ParametricTSNE.__init__
Construct(variant, n_iter, batch_size, ee_epochs, es_epochs) ==
    [variant |-> variant,
     n_iter |-> n_iter,
     batch_size |-> batch_size,
     early_exaggeration_epochs |-> ee_epochs,
     early_stopping_epochs |-> es_epochs,
     _model |-> None,
     _batch_size |-> None]

FitIdle ==
    [pc |-> "idle", op |-> "none", argX |-> <<>>, X |-> <<>>, n_sample |-> 0,
     P |-> <<>>, _P |-> <<>>, epoch |-> 0,
     es_patience |-> 0, es_loss |-> <<1, 0>>, es_stop |-> FALSE,
     loss |-> <<0, 1>>, n_batches |-> 0, i |-> 0, improved |-> <<>>]

IoIdle ==
    [op |-> "none", raised |-> "none", out_rows |-> 0, predicts |-> 0,
     budget |-> 0, calls |-> 0, fit_calls |-> 0, fit_returns |-> 0,
     configured |-> None, fit_min |-> 0,
     trained |-> FALSE, X_batch |-> <<>>, P_batch |-> <<>>, p_idxs |-> <<>>,
     i |-> 0, epoch |-> 0]

\* entry-wise product of a P matrix with a factor (NaN stays NaN)
Scale(P, f) ==
    [r \in 1..Len(P) |-> [c \in 1..Len(P[r]) |->
        <<P[r][c][1] * f, P[r][c][2], P[r][c][3] * f>>]]

\* a head of fit that takes the sample count as the batch size of each call
AdjustBatch_full(batch_size, X) == [batch_size |-> Len(X), X |-> X]

\* the head of msp fit: batch_size is clamped to the sample count, else X is
\* cut to a multiple of batch_size
AdjustBatch(batch_size, X) ==
    IF batch_size = None THEN [batch_size |-> Len(X), X |-> X]
    ELSE IF batch_size > Len(X) THEN [batch_size |-> Len(X), X |-> X]
    ELSE LET m == Len(X) % batch_size
         IN  [batch_size |-> batch_size,
              X |-> IF m > 0 THEN Slice(X, 0, Len(X) - m) ELSE X]

\* self._batch_size = batch_size if batch_size is not None else n_sample
RootBatch(batch_size, n_sample) == IF batch_size # None THEN batch_size ELSE n_sample

\* the batch size the running fit works with
BatchSize(e) == IF e.variant = "msp" THEN e.batch_size ELSE e._batch_size

Exaggerate_inplace(P, epoch, e) ==
    LET scaled == IF epoch < e.early_exaggeration_epochs
                  THEN Scale(P, early_exaggeration_value) ELSE P
    IN  [P |-> scaled, _P |-> scaled]

\* msp: _P = P.copy(); if epoch < early_exaggeration_epochs: _P *= value
Exaggerate(P, epoch, e) ==
    [P  |-> P,
     _P |-> IF epoch < e.early_exaggeration_epochs
            THEN Scale(P, early_exaggeration_value) ELSE P]

\* root: if epoch < early_exaggeration_epochs: P *= value, on the P of this epoch
ExaggerateFresh(P, epoch, e) ==
    IF epoch < e.early_exaggeration_epochs
    THEN Scale(P, early_exaggeration_value) ELSE P

ShuffleBatch_rows(X_batch, P_batch_, p_idxs) ==
    [X_batch |-> Take(X_batch, p_idxs), P_batch |-> Take(P_batch_, p_idxs)]

\* msp: X_batch = X_batch[p_idxs]; _P_batch = _P_batch[p_idxs, :][:, p_idxs]
ShuffleBatch(X_batch, P_batch_, p_idxs) ==
    [X_batch |-> Take(X_batch, p_idxs),
     P_batch |-> [a \in 1..Len(p_idxs) |-> Take(Take(P_batch_, p_idxs)[a], p_idxs)]]

\* inf - 1 is inf
Dec(x) == IF x = inf THEN inf ELSE x - 1

\* loss < es_loss and np.abs(loss - es_loss) > early_stopping_min_improvement,
\* loss and es_loss fractions, es_loss = 1/0 standing for np.inf; a NaN loss
\* is below nothing
Improved(loss, es_loss) ==
    IF IsNaN(loss) THEN FALSE
    ELSE IF es_loss[2] = 0 THEN TRUE
    ELSE /\ loss[1] * es_loss[2] < es_loss[1] * loss[2]
         /\ Abs(loss[1] * es_loss[2] - es_loss[1] * loss[2])
                > early_stopping_min_improvement * loss[2] * es_loss[2]

EarlyStopping_early(loss, f, e) ==
    LET imp == Improved(loss, f.es_loss)
        pat == IF imp THEN e.early_stopping_epochs ELSE Dec(f.es_patience)
    IN  [es_loss |-> IF imp THEN loss ELSE f.es_loss,
         es_patience |-> pat,
         es_stop |-> pat <= 1]

\* the early-stopping check at the end of an epoch
EarlyStopping(loss, f, e) ==
    LET imp == Improved(loss, f.es_loss)
        pat == IF imp THEN e.early_stopping_epochs ELSE Dec(f.es_patience)
    IN  [es_loss |-> IF imp THEN loss ELSE f.es_loss,
         es_patience |-> pat,
         es_stop |-> pat = 0]

\* while epoch < self.n_iter and not es_stop
Looping(f, e) == f.epoch < e.n_iter /\ ~f.es_stop

NotFitted_never(e) == FALSE

\* if self._model is None   (msp reads it through the model property)
NotFitted(e) == e._model = None

TransformArg_local(f) == f.X

\* fit_transform: self.fit(X, y); X_new = self.transform(X), X the caller's array
TransformArg(f) == f.argX

\* transform(X): NotFittedError without a network, else one forward pass
\* whose output has one row per row of X
transform(e, o, X) ==
    IF NotFitted(e)
    THEN [o EXCEPT !.raised = "NotFittedError", !.out_rows = 0]
    ELSE [o EXCEPT !.raised = "none", !.out_rows = Len(X), !.predicts = @ + 1]

----------------------------------------------------------------------------
(* fit, transform and fit_transform as steps *)

\* fit(X) / fit_transform(X) up to the test of the epoch loop
FitBegin ==
    \E op \in {"fit", "fit_transform"}, X \in DataSets, b \in BatchSizes :
        /\ fit.pc = "idle"
        /\ io.calls < io.budget
        /\ est.variant = "msp" => b = None
        /\ LET adj == AdjustBatch(est.batch_size, X)
               Xl  == IF est.variant = "msp" THEN adj.X ELSE X
           IN  /\ est' = IF est.variant = "msp"
                         THEN [est EXCEPT !.batch_size = adj.batch_size,
                                          !._model = Sequential]
                         ELSE [est EXCEPT !._batch_size = RootBatch(b, Len(X)),
                                          !._model = Sequential]
               /\ fit' = [FitIdle EXCEPT
                            !.pc = "loop", !.op = op, !.argX = X, !.X = Xl,
                            !.n_sample = Len(Xl),
                            !.es_patience = est.early_stopping_epochs,
                            !.P = IF est.variant = "msp"
                                  THEN FitP(Xl, adj.batch_size).P
                                  ELSE <<>>]
        /\ io' = [IoIdle EXCEPT !.budget = io.budget,
                                !.calls = io.calls + 1, !.predicts = io.predicts,
                                !.fit_calls = io.fit_calls + 1,
                                !.fit_returns = io.fit_returns,
                                !.configured = IF io.fit_calls = 0
                                               THEN est.batch_size
                                               ELSE io.configured,
                                !.fit_min = IF io.fit_calls = 0
                                            THEN Len(X)
                                            ELSE Min(io.fit_min, Len(X))]
        /\ UNCHANGED <<job, blk>>

\* the head of one epoch, down to the batch loop
EpochBegin ==
    /\ fit.pc = "loop"
    /\ Looping(fit, est)
    /\ IF est.variant = "msp"
       THEN LET x == Exaggerate(fit.P, fit.epoch, est)
            IN  /\ fit' = [fit EXCEPT !.pc = "batch", !.P = x.P, !._P = x._P,
                                      !.loss = <<0, 1>>, !.n_batches = 0, !.i = 0]
                /\ io' = io
       ELSE \E new_indices \in permutation(fit.n_sample) :
            LET X   == Take(fit.X, new_indices)
                res == FitP(X, est._batch_size)
            IN  IF res.err
                THEN \* the ValueError of calculate_P leaves fit
                     /\ fit' = [fit EXCEPT !.pc = "idle", !.X = X]
                     /\ io' = [io EXCEPT !.op = fit.op, !.raised = "ValueError"]
                ELSE /\ fit' = [fit EXCEPT !.pc = "batch", !.X = X,
                                           !.P = ExaggerateFresh(res.P, fit.epoch, est),
                                           !.loss = <<0, 1>>, !.n_batches = 0, !.i = 0]
                     /\ io' = io
    /\ UNCHANGED <<est, job, blk>>

\* one pass of the batch loop: one train_on_batch, which returns loss l
TrainBatch ==
    \E l \in LossChoices :
        /\ fit.pc = "batch"
        /\ fit.i < fit.n_sample
        /\ LET bs == BatchSize(est)
               Xb == Slice(fit.X, fit.i, fit.i + bs)
               Pb == Slice(IF est.variant = "msp" THEN fit._P ELSE fit.P,
                           fit.i, fit.i + bs)
           IN  IF est.variant = "msp"
               THEN \E p_idxs \in permutation(bs) :
                    LET sh == ShuffleBatch(Xb, Pb, p_idxs)
                    IN  io' = [io EXCEPT !.trained = TRUE, !.X_batch = sh.X_batch,
                                         !.P_batch = sh.P_batch, !.p_idxs = p_idxs,
                                         !.i = fit.i, !.epoch = fit.epoch]
               ELSE io' = [io EXCEPT !.trained = TRUE, !.X_batch = Xb, !.P_batch = Pb,
                                     !.i = fit.i, !.epoch = fit.epoch]
        /\ fit' = [fit EXCEPT !.loss = AddLoss(@, l), !.n_batches = @ + 1,
                              !.i = @ + BatchSize(est)]
        /\ UNCHANGED <<est, job, blk>>

\* the end of one epoch: loss /= n_batches, the early-stopping check, epoch += 1
EpochEnd ==
    /\ fit.pc = "batch"
    /\ fit.i >= fit.n_sample
    /\ LET loss == DivLoss(fit.loss, fit.n_batches)
           es   == EarlyStopping(loss, fit, est)
       IN  fit' = [fit EXCEPT !.pc = "loop", !.es_loss = es.es_loss,
                              !.es_patience = es.es_patience, !.es_stop = es.es_stop,
                              !.epoch = @ + 1,
                              !.improved = Append(@, Improved(loss, fit.es_loss))]
    /\ io' = [io EXCEPT !.trained = FALSE, !.X_batch = <<>>, !.P_batch = <<>>,
                        !.p_idxs = <<>>, !.i = 0, !.epoch = 0]
    /\ UNCHANGED <<est, job, blk>>

\* the loop is left: fit returns self; fit_transform goes on to transform(X)
FitReturn ==
    /\ fit.pc = "loop"
    /\ ~Looping(fit, est)
    /\ fit' = [fit EXCEPT !.pc = "idle"]
    /\ LET o == [io EXCEPT !.op = fit.op, !.fit_returns = @ + 1]
       IN  io' = IF fit.op = "fit_transform"
                 THEN transform(est, o, TransformArg(fit)) ELSE o
    /\ UNCHANGED <<est, job, blk>>

\* transform(X) called on its own
Transform ==
    \E X \in DataSets :
        /\ fit.pc = "idle"
        /\ io.calls < io.budget
        /\ io' = transform(est, [io EXCEPT !.op = "transform", !.calls = @ + 1], X)
        /\ UNCHANGED <<est, fit, job, blk>>

----------------------------------------------------------------------------
(* Specifications *)

\* the estimators a caller can construct; root takes no batch_size there
Estimators ==
    {e \in {Construct(v, n, b, x, s) :
                v \in {"msp", "root"}, n \in IterChoices, b \in BatchSizes,
                x \in ExaggerationChoices, s \in PatienceChoices} :
        e.variant = "root" => e.batch_size = None}

\* an estimator fresh from its constructor, of at most one epoch, on which
\* MaxCalls calls will be made
Init ==
    /\ est \in {e \in Estimators : e.n_iter <= 1 /\ e.early_exaggeration_epochs = 0}
    /\ fit = FitIdle
    /\ io = [IoIdle EXCEPT !.budget = MaxCalls]
    /\ job = JobIdle
    /\ blk = BlkIdle

Next == FitBegin \/ EpochBegin \/ TrainBatch \/ EpochEnd \/ FitReturn \/ Transform

Spec == Init /\ [][Next]_vars

\* an estimator fresh from its constructor, of any number of epochs, on
\* which one call will be made
InitTrain ==
    /\ est \in Estimators
    /\ fit = FitIdle
    /\ io = [IoIdle EXCEPT !.budget = 1]
    /\ job = JobIdle
    /\ blk = BlkIdle

SpecTrain == InitTrain /\ [][Next]_vars

\* x2p_job about to be called
InitX2p ==
    /\ est = Construct("msp", 0, None, 0, inf)
    /\ fit = FitIdle
    /\ io = IoIdle
    /\ job \in JobCalls
    /\ blk = BlkIdle

NextX2p == JobCall \/ JobStep \/ JobReturn

SpecX2p == InitX2p /\ [][NextX2p]_vars

\* calculate_P about to be called
InitP ==
    /\ est = Construct("msp", 0, None, 0, inf)
    /\ fit = FitIdle
    /\ io = IoIdle
    /\ job = JobIdle
    /\ blk \in BlkCalls

NextP == ComputeP

SpecP == InitP /\ [][NextP]_vars

----------------------------------------------------------------------------
(* Properties of fit, transform and fit_transform, checked under Spec *)

\* the last k epochs of the running (or last) fit all failed to improve
FailedLast(k) ==
    /\ Len(fit.improved) >= k
    /\ \A e \in (Len(fit.improved) - k + 1)..Len(fit.improved) : ~fit.improved[e]

\* C1: with a finite early_stopping_epochs = p, es_stop is set after an epoch
\* exactly when that epoch and the p - 1 before it each failed to lower the
\* running best es_loss by more than early_stopping_min_improvement.
C1_EarlyStopExactlyAfterPatience ==
    (fit.op # "none" /\ est.early_stopping_epochs # inf) =>
        (fit.es_stop <=> FailedLast(est.early_stopping_epochs))

\* a fit stopped early after an improving epoch and two failing ones
C1_Witness ==
    /\ est.early_stopping_epochs = 2
    /\ fit.es_stop
    /\ Len(fit.improved) = 3
    /\ fit.improved[1]

\* the factor of epoch k: early_exaggeration_value below
\* early_exaggeration_epochs, 1 from there on
FactorOf(k) ==
    IF k < est.early_exaggeration_epochs THEN early_exaggeration_value ELSE 1

\* C2: the similarity matrix handed to train_on_batch in epoch k is the
\* unscaled P of that epoch times early_exaggeration_value when
\* k < early_exaggeration_epochs and the unscaled P otherwise, never a
\* higher power of the factor; the P that msp computes once is never modified.
C2_ExaggerationNeverCompounds ==
    /\ io.trained =>
         LET bs   == BatchSize(est)
             base == FitP(fit.X, bs).P
             want == Slice(Scale(base, FactorOf(io.epoch)), io.i, io.i + bs)
         IN  IF est.variant = "msp"
             THEN \A a, b \in 1..bs :
                     io.P_batch[a][b] = want[io.p_idxs[a]][io.p_idxs[b]]
             ELSE io.P_batch = want
    /\ (est.variant = "msp" /\ fit.op # "none") =>
         fit.P = FitP(fit.X, BatchSize(est)).P

\* a batch of the second exaggerated epoch of an msp fit has been handed over
C2_Witness ==
    /\ est.variant = "msp"
    /\ est.early_exaggeration_epochs = 2
    /\ io.trained
    /\ io.epoch = 1
    /\ \E a, b \in 1..Len(io.P_batch) : io.P_batch[a][b][1] > 0

\* C3: transform on an estimator no fit was called on raises NotFittedError,
\* makes no forward pass and leaves the estimator without a network; once a
\* fit has returned, transform does not raise NotFittedError.
C3_TransformNeedsFit ==
    /\ (io.op = "transform" /\ io.fit_calls = 0) =>
          /\ io.raised = "NotFittedError"
          /\ io.predicts = 0
          /\ est._model = None
    /\ (io.op \in {"transform", "fit_transform"} /\ io.fit_returns > 0) =>
          io.raised # "NotFittedError"

\* transform was called twice on an estimator never fitted
C3_Witness ==
    /\ io.op = "transform"
    /\ io.calls = 2
    /\ io.fit_calls = 0
    /\ io.raised = "NotFittedError"

\* fit_transform of the msp estimator has returned
FitTransformed ==
    /\ est.variant = "msp"
    /\ io.op = "fit_transform"
    /\ fit.pc = "idle"

\* C4 as stated: msp fit_transform on n samples with batch_size b <= n returns
\* n - (n mod b) rows.
C4_OutputTruncated ==
    FitTransformed =>
        io.out_rows = Len(fit.argX) - (Len(fit.argX) % est.batch_size)

\* C4 amended: msp fit trains on the first n - (n mod b) samples, but
\* fit_transform returns one row for each of the n samples it was given.
C4_OutputKeepsEveryRow ==
    FitTransformed =>
        /\ io.out_rows = Len(fit.argX)
        /\ fit.n_sample = Len(fit.argX) - (Len(fit.argX) % est.batch_size)
        /\ fit.X = Slice(fit.argX, 0, fit.n_sample)

\* fit_transform on 3 samples with batch_size 2: trained on 2, returned 3 rows
C4_Witness ==
    /\ FitTransformed
    /\ Len(fit.argX) = 3
    /\ est.batch_size = 2
    /\ fit.n_sample = 2
    /\ io.out_rows = 3

\* C5: every X slice and P slice handed to train_on_batch has batch_size
\* rows, the P slice batch_size columns, and the P computation stores every
\* block (it raises no ValueError).  root breaks it: it neither clamps the
\* batch size nor cuts X.
C5_EveryBatchFull ==
    /\ io.trained =>
          /\ Len(io.X_batch) = BatchSize(est)
          /\ Len(io.P_batch) = BatchSize(est)
          /\ \A a \in 1..Len(io.P_batch) : Len(io.P_batch[a]) = BatchSize(est)
    /\ io.raised # "ValueError"

\* a fit has ended, by returning or by raising
FitEnded == fit.op # "none" /\ fit.pc = "idle"

\* C6: the epoch loop never runs more than n_iter epochs; fit ends, without
\* an exception, exactly when epoch = n_iter or early stopping fired; with
\* early_stopping_epochs at its default it runs exactly n_iter epochs.  root
\* breaks it where C5 fails: the ValueError of calculate_P ends the loop.
C6_LoopEndsAtNIterOrEarlyStop ==
    /\ fit.epoch <= est.n_iter
    /\ FitEnded =>
          /\ io.raised = "none"
          /\ fit.epoch = est.n_iter \/ fit.es_stop
          /\ est.early_stopping_epochs = inf => fit.epoch = est.n_iter

\* C10: msp hands train_on_batch the rows p_idxs of the X slice and the rows
\* and columns p_idxs of its P slice, p_idxs one permutation of the batch; X
\* and the precomputed P stay in their order.
C10_ShufflePreservesCorrespondence ==
    /\ (est.variant = "msp" /\ io.trained) =>
          LET bs == est.batch_size
              Xb == Slice(fit.X, io.i, io.i + bs)
              Pb == Slice(fit._P, io.i, io.i + bs)
              p  == io.p_idxs
          IN  /\ p \in permutation(bs)
              /\ \A a \in 1..bs : io.X_batch[a] = Xb[p[a]]
              /\ \A a, b \in 1..bs : io.P_batch[a][b] = Pb[p[a]][p[b]]
    /\ (est.variant = "msp" /\ fit.op # "none") =>
          /\ fit.X = AdjustBatch(est.batch_size, fit.argX).X
          /\ fit.P = FitP(fit.X, est.batch_size).P

\* a batch of three samples was handed over in another order than stored
C10_Witness ==
    /\ est.variant = "msp"
    /\ io.trained
    /\ est.batch_size = 3
    /\ io.p_idxs = <<2, 3, 1>>
    /\ io.X_batch # Slice(fit.X, io.i, io.i + 3)
    /\ io.P_batch # Slice(fit._P, io.i, io.i + 3)

----------------------------------------------------------------------------
(* Properties of x2p_job, checked under SpecX2p *)

\* C7: the row x2p_job returns never contains NaN: a non-finite evaluation,
\* the first one at beta = 1 included, is answered by the previous valid row.
\* Both variants break it: neither guards the first evaluation, and msp
\* guards none.
C7_ReturnedRowNeverNaN ==
    job.pc = "done" => ~AnyNaN(job.thisP)

\* C8: x2p_job makes at most max_iteration search steps (at most
\* max_iteration + 1 evaluations of Hbeta), makes no step once |H - logU| <= tol,
\* and when the budget runs out returns the row it computed last.
C8_BoundedSearch ==
    /\ job.tries <= job.max_iteration
    /\ job.evals <= job.max_iteration + 1
    /\ ~job.late
    /\ (job.pc = "done" /\ ~job.reverted) => job.thisP = Hbeta(job.Di, job.beta).P

\* the budget of a search ran out before it converged, and the job returned
C8_Witness ==
    /\ job.pc = "done"
    /\ job.max_iteration = MaxIteration
    /\ job.tries = job.max_iteration
    /\ job.Hdiff \in {"gt", "lt"}

----------------------------------------------------------------------------
(* Persistence of batch_size over the calls on one estimator, checked under
   Spec.  io.configured is the batch_size the constructor was given and
   io.fit_min the smallest sample count of the fits so far. *)

\* C11: on one msp estimator, after every fit on n samples batch_size is a
\* positive integer <= n, it is the constructor's value clamped by the
\* smallest dataset fitted so far (None counting as no limit), and no step
\* ever raises it or sets it back to None, so a later fit on a larger
\* dataset works with the clamped batch size.
C11_BatchSizeClampedForGood ==
    /\ [](est.variant = "msp" /\ io.fit_calls > 0 =>
            /\ est.batch_size \in 1..Len(fit.argX)
            /\ est.batch_size = IF io.configured = None
                                THEN io.fit_min
                                ELSE Min(io.configured, io.fit_min)
            /\ io.trained => Len(io.X_batch) = est.batch_size)
    /\ [][est.variant = "msp" /\ est.batch_size # None =>
            est'.batch_size # None /\ est'.batch_size <= est.batch_size]_vars

\* an estimator constructed with batch_size None was fitted on 2 samples and
\* then on 3: the second fit trains with batches of 2 on 2 of the 3 samples
C11_Witness ==
    /\ est.variant = "msp"
    /\ io.configured = None
    /\ io.fit_calls = 2
    /\ io.fit_min = 2
    /\ Len(fit.argX) = 3
    /\ est.batch_size = 2
    /\ fit.n_sample = 2
    /\ io.trained
    /\ Len(io.X_batch) = 2

----------------------------------------------------------------------------
(* Properties of the P computation, checked under SpecP *)

SumNum(B) == SumSeq([a \in 1..Len(B) |-> SumSeq([b \in 1..Len(B) |-> B[a][b][1]])])

SumEps(B) == SumSeq([a \in 1..Len(B) |-> SumSeq([b \in 1..Len(B) |-> B[a][b][3]])])

====
